---- MODULE Spec2Model ----
(***************************************************************************)
(* Model of src/main.py: one transcription run of the Streamlit script.    *)
(* A run converts the upload to a temporary WAV file, then either sends    *)
(* the whole file to the selected recognizer (short audio) or splits it    *)
(* into chunks and sends them one by one (transcribe_large_audio), and     *)
(* finally renders the results area.                                       *)
(*                                                                         *)
(* Times are kept in milliseconds, as pydub does (len(audio), slicing).    *)
(* Texts are sequences of symbols: "a" and "b" stand for letters, " " for  *)
(* a blank, and the fixed messages of the program are single symbols.      *)
(***************************************************************************)
EXTENDS Integers, Sequences, FiniteSets, TLC

VARIABLES
    pc,              \* position of main: idle, converted, loop, transcribed, results, done, failed
    engine,          \* sidebar selectbox (main.py:190)
    chunk_length,    \* sidebar slider, seconds (main.py:227)
    converted_path,  \* first value returned by convert_audio_to_wav
    duration_ms,     \* len(audio) of the converted audio; duration = duration_ms / 1000.0
    tempFiles,       \* temporary files currently on disk
    splitCount,      \* history: how many chunks split_on_silence returned
    chunks,          \* the list the per-chunk loop iterates over
    idx,             \* number of loop iterations completed (next value of i)
    transcriptions,  \* list of {'chunk', 'start_time', 'text'}
    progress,        \* last value given to the progress bar, as <<numerator, denominator>>
    full_text,       \* main's full_text
    path,            \* which strategy main took: none, short, long
    calls,           \* history: what the recognizer did on each invocation
    splitCalls,      \* history: number of split_on_silence calls
    convertCalls,    \* history: number of convert_audio_to_wav calls
    aborted,         \* history: transcribe_large_audio left through its except clause
    stage,           \* history: which except/return ended a failed run
    ui               \* what the page shows

vars == <<pc, engine, chunk_length, converted_path, duration_ms, tempFiles, splitCount,
          chunks, idx, transcriptions, progress, full_text, path, calls,
          splitCalls, convertCalls, aborted, stage, ui>>

(***************************************************************************)
(* Program constants and bounds of the model                               *)
(***************************************************************************)
DefaultChunkLength == 30
MaxChunkLength == 60
MsPerSecond == 1000

LenStep == 15000        \* grid of audio lengths and of silence cuts, in ms
MaxLenSteps == 5        \* longest audio is MaxLenSteps * LenStep
MaxSilenceChunks == 2   \* most chunks split_on_silence returns in the model

Engines == {"google", "sphinx"}
ChunkLengths == {DefaultChunkLength, MaxChunkLength}
AudioLengths == {k * LenStep : k \in 1..MaxLenSteps}

NoPath == "None"
WavPath == "tmp.wav"
ChunkFile(i) == <<"chunk.wav", i>>
ConvertedFile == <<"tmp.wav", 0>>

(***************************************************************************)
(* Texts                                                                   *)
(***************************************************************************)
Blank == " "
UnknownValueText == <<"Não foi possível entender o áudio">>
NoTranscriptText == <<"Não foi possível transcrever o áudio">>
RecognizedTexts == {<<>>, <<"a">>, <<Blank, "b">>, <<Blank>>}
ErrorMessages == {<<"e">>}

BackendOutcomes ==
    [kind : {"text"}, text : RecognizedTexts]
    \cup [kind : {"unknown"}, text : {<<>>}]
    \cup [kind : {"request_error", "error"}, text : ErrorMessages]

RECURSIVE LStrip(_)
LStrip(t) == IF t # <<>> /\ Head(t) = Blank THEN LStrip(Tail(t)) ELSE t

RECURSIVE RStrip(_)
RStrip(t) ==
    IF t # <<>> /\ t[Len(t)] = Blank THEN RStrip(SubSeq(t, 1, Len(t) - 1)) ELSE t

\* str.strip()
Strip(t) == RStrip(LStrip(t))

\* sep.join(list)
RECURSIVE Join(_, _)
Join(sep, list) ==
    IF list = <<>> THEN <<>>
    ELSE IF Len(list) = 1 THEN list[1]
    ELSE list[1] \o sep \o Join(sep, Tail(list))

Truthy(t) == t # <<>>

(***************************************************************************)
(* The recognizer wrappers                                                 *)
(***************************************************************************)
transcribe_with_google(o) ==
    CASE o.kind = "text" -> o.text
      [] o.kind = "unknown" -> UnknownValueText
      [] o.kind = "request_error" -> <<"Erro na solicitação:", Blank>> \o o.text
      [] OTHER -> <<"Erro:", Blank>> \o o.text

transcribe_with_sphinx(o) ==
    CASE o.kind = "text" -> o.text
      [] o.kind = "unknown" -> UnknownValueText
      [] OTHER -> <<"Erro:", Blank>> \o o.text

Transcribe(e, o) ==
    IF e = "google" THEN transcribe_with_google(o) ELSE transcribe_with_sphinx(o)

(***************************************************************************)
(* Segmentation                                                            *)
(***************************************************************************)
Min(a, b) == IF a <= b THEN a ELSE b

Range(a, b) == [start |-> a, stop |-> b]

GridPoints(L) == {k * LenStep : k \in 0..(L \div LenStep)} \cup {L}

Ranges(L) == {Range(a, b) : a, b \in GridPoints(L)} \ {r \in [start : GridPoints(L), stop : GridPoints(L)] : r.start >= r.stop}

\* pydub.silence.split_on_silence: any list of non-empty, ordered,
\* non-overlapping pieces of the audio, none at all for an all-silent audio.
split_on_silence(L) ==
    UNION {{s \in [1..n -> Ranges(L)] :
               \A j \in 1..(n - 1) : s[j].stop <= s[j + 1].start}
           : n \in 0..MaxSilenceChunks}

\* AudioSegment.__getitem__ of pydub for audio[a:b] on an audio of length L:
\* the library sets start = min(start, len(self)) and end = min(end, len(self)),
\* so the piece returned for audio[30000:60000] of a 45000 ms audio is
\* [30000, 45000). The code of line 139 only passes a and b.
Slice(L, a, b) == Range(Min(a, L), Min(b, L))

\* line 139, mutated: the range stops one window early and drops the tail
RECURSIVE WindowsFromDropTail(_, _, _)
WindowsFromDropTail(i, L, step) ==
    IF i >= L - step THEN <<>>
    ELSE <<Slice(L, i, i + step)>> \o WindowsFromDropTail(i + step, L, step)

\* line 139: [audio[i:i+step] for i in range(i, L, step)]
RECURSIVE WindowsFrom(_, _, _)
WindowsFrom(i, L, step) ==
    IF i >= L THEN <<>>
    ELSE <<Slice(L, i, i + step)>> \o WindowsFrom(i + step, L, step)

\* lines 137-139: the list the loop iterates over
Segments(pieces, L, cl) ==
    IF Len(pieces) = 1 THEN WindowsFrom(0, L, cl * MsPerSecond) ELSE pieces

\* line 291: duration > chunk_length, with duration = len(audio) / 1000.0
IsLongAudio(L, cl) == L > cl * MsPerSecond

(***************************************************************************)
(* Units                                                                   *)
(***************************************************************************)
Unit(c, st, t) == [chunk |-> c, start_time |-> st, text |-> t]

\* lines 155-160, mutated: units numbered by their position in the list
AppendUnitRenumbered(trs, i, cl, text) ==
    IF Truthy(text) /\ text # UnknownValueText
    THEN Append(trs, Unit(Len(trs) + 1, Len(trs) * cl, Strip(text)))
    ELSE trs

\* lines 155-160 (i is the 0-based loop index)
AppendUnit(trs, i, cl, text) ==
    IF Truthy(text) /\ text # UnknownValueText
    THEN Append(trs, Unit(i + 1, i * cl, Strip(text)))
    ELSE trs

\* lines 310-314, mutated: the text is always wrapped
ShortUnitsAlways(text) == <<Unit(1, 0, text)>>

\* lines 310-314
ShortUnits(text) ==
    IF text # UnknownValueText THEN <<Unit(1, 0, text)>> ELSE <<>>

\* lines 298-301
LongFullText(trs) ==
    IF trs # <<>> THEN Join(<<Blank>>, [j \in 1..Len(trs) |-> trs[j].text])
    ELSE NoTranscriptText

(***************************************************************************)
(* format_timestamp                                                        *)
(***************************************************************************)
DigitChar(d) ==
    CASE d = 0 -> "0" [] d = 1 -> "1" [] d = 2 -> "2" [] d = 3 -> "3"
      [] d = 4 -> "4" [] d = 5 -> "5" [] d = 6 -> "6" [] d = 7 -> "7"
      [] d = 8 -> "8" [] OTHER -> "9"

RECURSIVE Digits(_)
Digits(n) == IF n < 10 THEN <<DigitChar(n)>> ELSE Digits(n \div 10) \o <<DigitChar(n % 10)>>

\* f"{n:02d}"
Pad2(n) == IF n < 10 THEN <<"0">> \o Digits(n) ELSE Digits(n)

format_timestamp(seconds) ==
    Pad2(seconds \div 3600) \o <<":">> \o Pad2((seconds % 3600) \div 60)
        \o <<":">> \o Pad2(seconds % 60)

\* lines 350-355: one line of the per-chunk expander
ChunkLine(t, show_timestamps) ==
    [chunk |-> t.chunk,
     stamp |-> IF show_timestamps THEN format_timestamp(t.start_time) ELSE <<>>,
     text |-> t.text]

(***************************************************************************)
(* The run                                                                 *)
(***************************************************************************)
EmptyUI == [errors |-> {}, success |-> FALSE, textShown |-> FALSE, text |-> <<>>,
            lines |-> <<>>, warning |-> FALSE]

Init ==
    /\ pc = "idle"
    /\ engine \in Engines
    /\ chunk_length \in ChunkLengths
    /\ converted_path = NoPath
    /\ duration_ms = 0
    /\ tempFiles = {}
    /\ splitCount = 0
    /\ chunks = <<>>
    /\ idx = 0
    /\ transcriptions = <<>>
    /\ progress = <<0, 1>>
    /\ full_text = <<>>
    /\ path = "none"
    /\ calls = <<>>
    /\ splitCalls = 0
    /\ convertCalls = 0
    /\ aborted = FALSE
    /\ stage = "none"
    /\ ui = EmptyUI

\* line 282, mutated: the failed conversion is not noticed
ConversionFailedNever(p) == FALSE

\* line 282: converted_path is None
ConversionFailed(p) == p = NoPath

\* lines 280-286: main receives (p, d) from convert_audio_to_wav
MainAfterConvert(p, d, convErrors) ==
    /\ converted_path' = p
    /\ duration_ms' = d
    /\ convertCalls' = convertCalls + 1
    /\ IF ConversionFailed(p)
       THEN /\ pc' = "failed"
            /\ stage' = "decode"
            /\ ui' = [ui EXCEPT !.errors = convErrors \cup {"Falha na conversão do áudio"}]
       ELSE /\ pc' = "converted"
            /\ stage' = stage
            /\ ui' = [ui EXCEPT !.errors = convErrors]

\* lines 78-88: the upload decodes and the WAV file is written
ConvertOk ==
    /\ pc = "idle"
    /\ \E L \in AudioLengths : MainAfterConvert(WavPath, L, ui.errors)
    /\ tempFiles' = tempFiles \cup {ConvertedFile}
    /\ UNCHANGED <<engine, chunk_length, splitCount, chunks, idx, transcriptions, progress,
                   full_text, path, calls, splitCalls, aborted>>

\* lines 80, 89-91: AudioSegment.from_file raises, no file was created yet
ConvertDecodeFails ==
    /\ pc = "idle"
    /\ MainAfterConvert(NoPath, 0, ui.errors \cup {"Erro na conversão de áudio"})
    /\ UNCHANGED <<engine, chunk_length, tempFiles, splitCount, chunks, idx, transcriptions,
                   progress, full_text, path, calls, splitCalls, aborted>>

\* lines 86-91: export raises after NamedTemporaryFile(delete=False) made the file
ConvertExportFails ==
    /\ pc = "idle"
    /\ MainAfterConvert(NoPath, 0, ui.errors \cup {"Erro na conversão de áudio"})
    /\ tempFiles' = tempFiles \cup {ConvertedFile}
    /\ UNCHANGED <<engine, chunk_length, splitCount, chunks, idx, transcriptions, progress,
                   full_text, path, calls, splitCalls, aborted>>

\* lines 303-314: short audio, one recognizer call on the converted file
ShortTranscribe ==
    /\ pc = "converted"
    /\ ~IsLongAudio(duration_ms, chunk_length)
    /\ \E o \in BackendOutcomes :
          /\ calls' = Append(calls, o)
          /\ full_text' = Transcribe(engine, o)
          /\ transcriptions' = ShortUnits(Transcribe(engine, o))
    /\ path' = "short"
    /\ pc' = "transcribed"
    /\ UNCHANGED <<engine, chunk_length, converted_path, duration_ms, tempFiles, splitCount,
                   chunks, idx, progress, splitCalls, convertCalls, aborted, stage, ui>>

\* lines 291-293, 124-142: long audio, load, split, fall back, reset the progress bar
StartLong ==
    /\ pc = "converted"
    /\ IsLongAudio(duration_ms, chunk_length)
    /\ \E pieces \in split_on_silence(duration_ms) :
          /\ splitCount' = Len(pieces)
          /\ chunks' = Segments(pieces, duration_ms, chunk_length)
    /\ splitCalls' = splitCalls + 1
    /\ transcriptions' = <<>>
    /\ progress' = <<0, 1>>
    /\ idx' = 0
    /\ path' = "long"
    /\ pc' = "loop"
    /\ UNCHANGED <<engine, chunk_length, converted_path, duration_ms, tempFiles,
                   full_text, calls, convertCalls, aborted, stage, ui>>

\* lines 144-166: one iteration of the loop; the chunk file is made and removed inside it
ProcessChunk ==
    /\ pc = "loop"
    /\ idx < Len(chunks)
    /\ \E o \in BackendOutcomes :
          /\ calls' = Append(calls, o)
          /\ transcriptions' =
                AppendUnit(transcriptions, idx, chunk_length, Transcribe(engine, o))
    /\ tempFiles' = (tempFiles \cup {ChunkFile(idx)}) \ {ChunkFile(idx)}
    /\ progress' = <<idx + 1, Len(chunks)>>
    /\ idx' = idx + 1
    /\ UNCHANGED <<pc, engine, chunk_length, converted_path, duration_ms, splitCount, chunks,
                   full_text, path, splitCalls, convertCalls, aborted, stage, ui>>

\* lines 146-147, 170-172, 298-301: chunk.export raises; the except clause
\* reports it and returns an empty list to main
ChunkExportFails ==
    /\ pc = "loop"
    /\ idx < Len(chunks)
    /\ tempFiles' = tempFiles \cup {ChunkFile(idx)}
    /\ ui' = [ui EXCEPT !.errors = @ \cup {"Erro na transcrição de áudio longo"}]
    /\ aborted' = TRUE
    /\ transcriptions' = <<>>
    /\ full_text' = LongFullText(<<>>)
    /\ pc' = "transcribed"
    /\ UNCHANGED <<engine, chunk_length, converted_path, duration_ms, splitCount, chunks, idx,
                   progress, path, calls, splitCalls, convertCalls, stage>>

\* lines 168, 298-301: the loop is over, main builds full_text
FinishLong ==
    /\ pc = "loop"
    /\ idx = Len(chunks)
    /\ full_text' = LongFullText(transcriptions)
    /\ pc' = "transcribed"
    /\ UNCHANGED <<engine, chunk_length, converted_path, duration_ms, tempFiles, splitCount,
                   chunks, idx, transcriptions, progress, path, calls, splitCalls,
                   convertCalls, aborted, stage, ui>>

\* lines 316-323: remove the converted file, report success
Cleanup ==
    /\ pc = "transcribed"
    /\ tempFiles' = tempFiles \ {ConvertedFile}
    /\ ui' = [ui EXCEPT !.success = TRUE]
    /\ pc' = "results"
    /\ UNCHANGED <<engine, chunk_length, converted_path, duration_ms, splitCount, chunks, idx,
                   transcriptions, progress, full_text, path, calls, splitCalls,
                   convertCalls, aborted, stage>>

\* lines 325-327: a call inside main's try block raises after the conversion
MainException ==
    /\ pc \in {"converted", "transcribed"}
    /\ ui' = [ui EXCEPT !.errors = @ \cup {"Erro durante a transcrição"}]
    /\ stage' = "transcription"
    /\ pc' = "failed"
    /\ UNCHANGED <<engine, chunk_length, converted_path, duration_ms, tempFiles, splitCount,
                   chunks, idx, transcriptions, progress, full_text, path, calls,
                   splitCalls, convertCalls, aborted>>

\* lines 330-376: the results area
ShowResults ==
    /\ pc = "results"
    /\ \E show_chunks, show_timestamps \in BOOLEAN :
          IF transcriptions # <<>>
          THEN /\ full_text' = Join(<<Blank>>, [j \in 1..Len(transcriptions) |-> transcriptions[j].text])
               /\ ui' = [ui EXCEPT
                     !.textShown = TRUE,
                     !.text = Join(<<Blank>>, [j \in 1..Len(transcriptions) |-> transcriptions[j].text]),
                     !.lines = IF show_chunks /\ Len(transcriptions) > 1
                               THEN [j \in 1..Len(transcriptions) |->
                                        ChunkLine(transcriptions[j], show_timestamps)]
                               ELSE <<>>]
          ELSE /\ full_text' = full_text
               /\ ui' = [ui EXCEPT !.warning = TRUE]
    /\ pc' = "done"
    /\ UNCHANGED <<engine, chunk_length, converted_path, duration_ms, tempFiles, splitCount,
                   chunks, idx, transcriptions, progress, path, calls, splitCalls,
                   convertCalls, aborted, stage>>

Next ==
    \/ ConvertOk
    \/ ConvertDecodeFails
    \/ ConvertExportFails
    \/ ShortTranscribe
    \/ StartLong
    \/ ProcessChunk
    \/ ChunkExportFails
    \/ FinishLong
    \/ Cleanup
    \/ MainException
    \/ ShowResults

Spec == Init /\ [][Next]_vars

(***************************************************************************)
(* Properties                                                              *)
(***************************************************************************)
IsBackendError(o) == o.kind \in {"request_error", "error"}

HasText(o) == o.kind = "text" /\ o.text # <<>>

CeilDiv(a, b) == (a + b - 1) \div b

RunOver == pc \in {"done", "failed"}

Transcribed == pc \in {"transcribed", "results", "done"}

\* C1: in a long-audio run, once the recognizer fails with an infrastructure
\* error on segment k, no later segment is sent to it, the run ends as a
\* failure and no transcript (text or units) is produced or displayed.
C1FailFast ==
    \A k \in 1..Len(calls) :
        (path = "long" /\ IsBackendError(calls[k])) =>
            /\ Len(calls) = k
            /\ ~ui.success
            /\ ~ui.textShown
            /\ ui.lines = <<>>
            /\ (RunOver => pc = "failed")
            /\ (RunOver => transcriptions = <<>>)

\* C2: when a long-audio run has completed, the full text is the texts of
\* the segments the recognizer returned a non-empty text for, in segment
\* order, joined by one blank; a segment that was not understood adds
\* neither text nor a placeholder.
C2FullText ==
    (pc = "done" /\ path = "long") =>
        full_text = Join(<<Blank>>,
                         [j \in 1..Len(SelectSeq(calls, HasText)) |->
                             Strip(SelectSeq(calls, HasText)[j].text)])

\* C3: when split_on_silence returns exactly one chunk, the loop runs over
\* ceil(L / chunk_length) windows [i*chunk_length, min((i+1)*chunk_length, L)):
\* increasing, contiguous, non-overlapping, covering [0, L), none longer than
\* chunk_length, the last one ending at L; 45 s with 30 s chunks gives
\* [0,30) and [30,45).
C3FixedWindows ==
    (path = "long" /\ splitCount = 1) =>
        LET W == chunk_length * MsPerSecond
            n == CeilDiv(duration_ms, W)
        IN  /\ Len(chunks) = n
            /\ chunks[1].start = 0
            /\ chunks[n].stop = duration_ms
            /\ \A i \in 1..n :
                  /\ chunks[i].start = (i - 1) * W
                  /\ chunks[i].stop = Min(i * W, duration_ms)
                  /\ chunks[i].start < chunks[i].stop
                  /\ chunks[i].stop - chunks[i].start <= W
                  /\ (i < n => chunks[i].stop = chunks[i + 1].start)
            /\ ((duration_ms = 45000 /\ chunk_length = 30) =>
                   chunks = <<Range(0, 30000), Range(30000, 45000)>>)

\* C3 witness: the fallback has cut an audio into several windows, the last one shorter
C3Witness ==
    /\ path = "long"
    /\ splitCount = 1
    /\ Len(chunks) >= 2
    /\ chunks[Len(chunks)].stop - chunks[Len(chunks)].start < chunk_length * MsPerSecond
    /\ idx = Len(chunks)

\* C4: for an audio of positive duration the list of segments the loop runs
\* over is never empty, whatever split_on_silence returned.
C4NonEmpty ==
    (path = "long" /\ duration_ms > 0) => Len(chunks) >= 1

\* C5 as claimed: the chunked path is taken exactly when duration >
\* chunk_length; otherwise nothing is split, the recognizer is called once
\* and the transcript is one unit (chunk 1, start 0) with that call's text.
C5ShortAlwaysOneUnit ==
    /\ (path # "none" => (path = "long" <=> duration_ms > chunk_length * MsPerSecond))
    /\ (Transcribed /\ duration_ms <= chunk_length * MsPerSecond) =>
          /\ splitCalls = 0
          /\ Len(calls) = 1
          /\ Len(transcriptions) = 1
          /\ transcriptions[1].chunk = 1
          /\ transcriptions[1].start_time = 0
          /\ transcriptions[1].text = Transcribe(engine, calls[1])

\* C5 amended: as claimed, except that a call that returns the
\* not-understood text leaves the transcript without any unit.
C5ShortOneUnitUnlessUnknown ==
    /\ (path # "none" => (path = "long" <=> duration_ms > chunk_length * MsPerSecond))
    /\ (Transcribed /\ duration_ms <= chunk_length * MsPerSecond) =>
          /\ splitCalls = 0
          /\ Len(calls) = 1
          /\ path = "short"
          /\ IF calls[1].kind = "unknown"
             THEN transcriptions = <<>>
             ELSE /\ Len(transcriptions) = 1
                  /\ transcriptions[1].chunk = 1
                  /\ transcriptions[1].start_time = 0
                  /\ transcriptions[1].text = Transcribe(engine, calls[1])
                  /\ (calls[1].kind = "text" => transcriptions[1].text = calls[1].text)

\* C5 witness: a short run ended with its single unit on the page
C5Witness ==
    /\ pc = "done"
    /\ path = "short"
    /\ calls[1].kind = "text"
    /\ Len(transcriptions) = 1
    /\ ui.textShown
    /\ ui.text = calls[1].text

\* C6: when the run is over, on any exit path, no temporary file is left.
C6NoTempFiles ==
    RunOver => tempFiles = {}

\* C7 as claimed: in a long-audio run a segment that was not understood adds
\* no text, but still has its slot in the per-chunk output, and the other
\* units keep their own number and start time.
C7SlotKept ==
    (pc = "done" /\ path = "long" /\ ~aborted /\ ui.lines # <<>>) =>
        \A k \in 1..Len(calls) :
            /\ (calls[k].kind = "unknown" =>
                   \E p \in 1..Len(ui.lines) : ui.lines[p].chunk = k)
            /\ (HasText(calls[k]) /\ Strip(calls[k].text) # <<>> =>
                   \E p \in 1..Len(ui.lines) :
                       /\ ui.lines[p].chunk = k
                       /\ transcriptions[p].start_time = (k - 1) * chunk_length)

\* C7 amended: in a long-audio run a segment that was not understood adds no
\* text and gets no unit and no line in the per-chunk output; every other
\* segment with a non-empty result has exactly one unit, numbered by its own
\* segment (index + 1) with start time index * chunk_length, and its line
\* carries that number and that time.
C7GapKept ==
    (pc = "done" /\ path = "long" /\ ~aborted) =>
        /\ \A j \in 1..Len(full_text) : full_text[j] # UnknownValueText[1]
        /\ Len(ui.lines) \in {0, Len(transcriptions)}
        /\ \A k \in 1..Len(calls) :
              LET at == {p \in 1..Len(transcriptions) : transcriptions[p].chunk = k}
              IN  IF calls[k].kind = "unknown" \/ Transcribe(engine, calls[k]) = <<>>
                  THEN at = {}
                  ELSE /\ Cardinality(at) = 1
                       /\ \A p \in at :
                             /\ transcriptions[p].start_time = (k - 1) * chunk_length
                             /\ transcriptions[p].text = Strip(Transcribe(engine, calls[k]))
                             /\ (ui.lines # <<>> =>
                                    /\ ui.lines[p].chunk = k
                                    /\ ui.lines[p].text = transcriptions[p].text
                                    /\ ui.lines[p].stamp \in
                                          {<<>>, format_timestamp((k - 1) * chunk_length)})

\* C7 witness: three segments, the middle one not understood, two lines shown
\* with numbers 1 and 3 and the third segment's own time
C7Witness ==
    /\ pc = "done"
    /\ path = "long"
    /\ chunk_length = 30
    /\ Len(calls) = 3
    /\ HasText(calls[1])
    /\ calls[2].kind = "unknown"
    /\ HasText(calls[3])
    /\ Len(ui.lines) = 2
    /\ ui.lines[1].chunk = 1
    /\ ui.lines[2].chunk = 3
    /\ ui.lines[2].stamp = <<"0", "0", ":", "0", "1", ":", "0", "0">>

\* C8: when the conversion fails the run ends there as a failure: the
\* recognizer is never called, nothing is split, the conversion is not tried
\* again, and neither a transcript nor the completion message is shown.
C8DecodeFailure ==
    (convertCalls >= 1 /\ converted_path = NoPath) =>
        /\ pc = "failed"
        /\ stage = "decode"
        /\ convertCalls = 1
        /\ calls = <<>>
        /\ splitCalls = 0
        /\ path = "none"
        /\ transcriptions = <<>>
        /\ ~ui.success
        /\ ~ui.textShown
        /\ ui.lines = <<>>
        /\ "Falha na conversão do áudio" \in ui.errors

\* C8 witness: a run that failed at the conversion
C8Witness ==
    /\ pc = "failed"
    /\ stage = "decode"
    /\ converted_path = NoPath
    /\ convertCalls = 1

\* C9: every unit of a long-audio run records as start_time the start offset
\* of its segment in the audio, so it lies in [0, duration) and grows with
\* the segment index.
C9StartTimes ==
    path = "long" =>
        \A j \in 1..Len(transcriptions) :
            /\ transcriptions[j].start_time * MsPerSecond
                  = chunks[transcriptions[j].chunk].start
            /\ 0 <= transcriptions[j].start_time
            /\ transcriptions[j].start_time * MsPerSecond < duration_ms
            /\ (j > 1 => transcriptions[j - 1].start_time < transcriptions[j].start_time)

\* C10: in a long-audio run over n segments the progress is 0 before the
\* first segment, is k/n once the k-th recognizer call has returned and its
\* file is removed, and is 1 exactly when all n segments have been processed.
C10Progress ==
    path = "long" =>
        /\ (idx = 0 => progress[1] = 0)
        /\ (idx > 0 => progress = <<idx, Len(chunks)>>)
        /\ progress[1] <= progress[2]
        /\ \A j \in 0..(idx - 1) : ChunkFile(j) \notin tempFiles
        /\ (~aborted => Len(calls) = idx)
        /\ (progress[1] = progress[2] <=> idx = Len(chunks))

====
